---- MODULE Spec2Model ----
(***************************************************************************)
(* Model of createMessageBatcher (src/src/batcher.ts): the per-topic       *)
(* queue, the size and timer triggers, the fan-out of a drained batch to   *)
(* the registered processors through Promise.allSettled, flush() and       *)
(* destroy().  JavaScript runs the handlers on one thread: every action    *)
(* below is one synchronous run of a handler up to its next await, or the  *)
(* continuation that follows an await.                                     *)
(***************************************************************************)
EXTENDS Integers, Sequences, FiniteSets, TLC

\* ---------------------------------------------------------------- bounds
MaxMessages == 2      \* enqueue calls made in a behaviour
MaxBatchSize == 2     \* largest config.maxBatchSize tried
MaxFlushes == 2       \* flush() calls made in a behaviour
MaxDestroys == 1      \* destroy() calls made in a behaviour
NumProcessors == 3    \* length of the processors array given at construction
MaxMemberCalls == 1   \* calls of members the returned object does not have

\* ------------------------------------------------------------ data types
Levels == {"info", "warning", "error"}

\* What the call processor.processBatch(batch) does: it returns a promise
\* that later fulfils or later rejects, or it throws before returning one
\* (the function throws, or the member is undefined and the call itself
\* raises a TypeError).
Behaviours == {"resolves", "rejects", "throws"}

ProcessorNames == <<"mock", "extra", "third", "fourth">>

VARIABLES
    config,           \* [maxBatchSize, maxWaitMs]
    processors,       \* the array given at construction
    queues,           \* Map chatId -> Message[]
    queueEntries,     \* number of entries the Map has ever held (iteration order)
    timers,           \* Map chatId -> timeout, never written
    processInterval,  \* TRUE while the setInterval handle is set
    dispatches,       \* activations of processBatch that drained a batch
    flushes,          \* flush() calls
    calls,            \* log of processor.processBatch(batch) calls
    consoleErrors,    \* log of console.error calls
    enqueued,         \* history: every message pushed, in push order
    enqueuedEpoch,    \* history: number of destroy() calls before each push
    destroys,         \* history: number of destroy() calls so far
    memberCalls       \* history: calls of members the returned object lacks

vars == <<config, processors, queues, queueEntries, timers, processInterval,
          dispatches, flushes, calls, consoleErrors, enqueued, enqueuedEpoch,
          destroys, memberCalls>>

\* ---------------------------------------------------------------- helpers
EmptyMap == [k \in {} |-> <<>>]

\* const chatId = 'default'
DefaultChatId == "default"

\* { chatId, text: message, level }
MakeMessage(chatId, message, level) ==
    [chatId |-> chatId, text |-> message, level |-> level]

\* queue.unshift(m) in place of queue.push(m)
PushFront(queue, m) == <<m>> \o queue

\* queue.push(m)
Push(queue, m) == Append(queue, m)

\* if (!queues.has(chatId)) queues.set(chatId, [])
EnsureQueue(qs, chatId) ==
    IF chatId \in DOMAIN qs THEN qs ELSE (chatId :> <<>>) @@ qs

\* if (!queue) return, without the test of the length
NothingToProcessNoLength(qs, chatId) == chatId \notin DOMAIN qs

\* if (!queue?.length) return
NothingToProcess(qs, chatId) ==
    \/ chatId \notin DOMAIN qs
    \/ Len(qs[chatId]) = 0

\* queue.length > config.maxBatchSize
SizeTriggerAbove(queue) == Len(queue) > config.maxBatchSize

\* queue.length >= config.maxBatchSize
SizeTrigger(queue) == Len(queue) >= config.maxBatchSize

\* destroy() without queues.clear()
KeepQueues(qs) == qs

\* queues.clear()
ClearQueues(qs) == EmptyMap

\* clearInterval(processInterval); processInterval = null
ClearInterval(handle) == FALSE

\* index of the first processor whose call throws, 0 if none
FirstThrower(ps) ==
    LET bad == {i \in 1..Len(ps) : ps[i].processBatch = "throws"}
    IN  IF bad = {} THEN 0 ELSE CHOOSE i \in bad : \A j \in bad : i <= j

\* processors for which processors.map((processor) => processor.processBatch(batch))
\* evaluates the call: map stops at the first callback that throws
Invoked(ps) ==
    LET t == FirstThrower(ps)
    IN  IF t = 0 THEN 1..Len(ps) ELSE 1..t

\* the promises handed to Promise.allSettled, one per call that returned
Promises(ps) ==
    LET t == FirstThrower(ps)
    IN  [i \in 1..Len(ps) |->
            IF t = 0 \/ i < t THEN "pending" ELSE "none"]

\* `Processor ${index} failed:` ; index is the 0-based array index
FailureTag(index) == "Processor " \o ToString(index) \o " failed:"

\* the calls appended by one run of processors.map
NewCalls(ps, batch, d) ==
    LET inv == Invoked(ps)
    IN  [i \in 1..Cardinality(inv) |->
            [processor |-> i, messages |-> batch, dispatch |-> d]]

\* const batch = [...queue], but only the first message is copied
SnapshotFirst(queue) == SubSeq(queue, 1, 1)

\* const batch = [...queue]
Snapshot(queue) == queue

\* processBatch without queues.set(chatId, [])
LeaveQueue(qs, chatId) == qs

\* queues.set(chatId, [])
ResetQueue(qs, chatId) == [qs EXCEPT ![chatId] = <<>>]

\* ---------------------------------------------------------- processBatch
\* Synchronous part of processBatch(chatId), up to `await Promise.allSettled`.
\* qs is the Map as the caller left it; by is "size", "timer" or "flush" and
\* f the flush() call that awaits the returned promise (0: nobody awaits it).
ProcessBatch(qs, chatId, by, f) ==
    IF NothingToProcess(qs, chatId)
    THEN /\ queues' = qs
         /\ UNCHANGED <<dispatches, calls>>
    ELSE LET batch == Snapshot(qs[chatId])
             d == Len(dispatches) + 1
             t == FirstThrower(processors)
         IN  /\ queues' = ResetQueue(qs, chatId)
             /\ calls' = calls \o NewCalls(processors, batch, d)
             /\ dispatches' = Append(dispatches,
                    [chatId |-> chatId, batch |-> batch, by |-> by,
                     flush |-> f, epoch |-> destroys,
                     results |-> Promises(processors),
                     threw |-> t,
                     state |-> IF t = 0 THEN "awaiting" ELSE "rejected"])

\* dispatches created by the step being taken
Created == (Len(dispatches) + 1)..Len(dispatches')

\* ------------------------------------------------------------------ Init
\* createMessageBatcher(processors, config) has run: empty Maps, and
\* startProcessing() has set the interval.  The function reads config only
\* in setInterval(..., config.maxWaitMs) and in the size test.
Constructed ==
    /\ processors \in
          {[i \in 1..NumProcessors |->
                [name |-> ProcessorNames[i], processBatch |-> b[i]]] :
              b \in [1..NumProcessors -> Behaviours]}
    /\ queues = EmptyMap
    /\ queueEntries = 0
    /\ timers = EmptyMap
    /\ processInterval = TRUE          \* startProcessing() ran
    /\ dispatches = <<>>
    /\ flushes = <<>>
    /\ calls = <<>>
    /\ consoleErrors = <<>>
    /\ enqueued = <<>>
    /\ enqueuedEpoch = <<>>
    /\ destroys = 0
    /\ memberCalls = <<>>

\* construction with a config of positive values
Init ==
    /\ config \in [maxBatchSize : 1..MaxBatchSize, maxWaitMs : {1}]
    /\ Constructed

\* construction with any config the type `number` admits, here values
\* around zero
InitAnyConfig ==
    /\ config \in [maxBatchSize : -1..1, maxWaitMs : 0..1]
    /\ Constructed

\* ------------------------------------------------------------ operations
\* queueMessage(message, level); the k-th call of a behaviour passes the
\* text k, so that messages can be told apart
QueueMessageBody(level) ==
    /\ Len(enqueued) < MaxMessages
    /\ LET chatId == DefaultChatId
           message == Len(enqueued) + 1
           m == MakeMessage(chatId, message, level)
           qs0 == EnsureQueue(queues, chatId)
           queue == Push(qs0[chatId], m)
           qs1 == [qs0 EXCEPT ![chatId] = queue]
       IN  /\ queueEntries' = IF chatId \in DOMAIN queues
                              THEN queueEntries ELSE queueEntries + 1
           /\ enqueued' = Append(enqueued, m)
           /\ enqueuedEpoch' = Append(enqueuedEpoch, destroys)
           /\ IF SizeTrigger(queue)
              THEN ProcessBatch(qs1, chatId, "size", 0)
              ELSE /\ queues' = qs1
                   /\ UNCHANGED <<dispatches, calls>>
    /\ UNCHANGED <<config, processors, timers, processInterval, flushes,
                   consoleErrors, destroys, memberCalls>>

\* info(message)
Info == QueueMessageBody("info")

\* warning(message)
Warning == QueueMessageBody("warning")

\* error(message)
Error == QueueMessageBody("error")

\* queueMessage(message, level) called directly
QueueMessage == \E level \in Levels : QueueMessageBody(level)

\* Promise.allSettled(...) has a result for every promise it was given
AllSettled(d) ==
    \A i \in DOMAIN d.results : d.results[i] \in {"none", "fulfilled", "rejected"}

\* the promise flush call f awaits is settled
FlushReady(f) ==
    /\ f.state = "awaiting"
    /\ f.awaiting # 0 => dispatches[f.awaiting].state \in {"done", "rejected"}

\* a continuation is ready to run; the interval callback, a macrotask, runs
\* only when none is
MicrotaskPending ==
    \/ \E k \in DOMAIN dispatches :
          dispatches[k].state = "awaiting" /\ AllSettled(dispatches[k])
    \/ \E k \in DOMAIN flushes : FlushReady(flushes[k])

\* the setInterval callback of startProcessing
Tick ==
    /\ processInterval
    /\ ~MicrotaskPending
    /\ ProcessBatch(queues, DefaultChatId, "timer", 0)
    /\ UNCHANGED <<config, processors, queueEntries, timers, processInterval,
                   flushes, consoleErrors, enqueued, enqueuedEpoch, destroys,
                   memberCalls>>

\* what the promise returned by processor p settles to
Outcome(p) == IF p.processBatch = "rejects" THEN "rejected" ELSE "fulfilled"

\* The promises of one dispatch settle.  The batcher sees them only through
\* Promise.allSettled, which has its result when the last of them settles,
\* so the step is that last settlement.
Settle ==
    \E k \in DOMAIN dispatches :
        /\ \E i \in DOMAIN processors : dispatches[k].results[i] = "pending"
        /\ dispatches' = [dispatches EXCEPT ![k].results =
              [i \in DOMAIN processors |->
                  IF dispatches[k].results[i] = "pending"
                  THEN Outcome(processors[i]) ELSE dispatches[k].results[i]]]
        /\ UNCHANGED <<config, processors, queues, queueEntries, timers,
                       processInterval, flushes, calls, consoleErrors,
                       enqueued, enqueuedEpoch, destroys, memberCalls>>

\* console.error(`Processor ${index} failed:`, result.reason) for each
\* rejected result, in array order
Reports(ps, results, k) ==
    LET rejected == {i \in DOMAIN results : results[i] = "rejected"}
        n == Cardinality(rejected)
        nth[j \in 0..n] ==
            IF j = 0 THEN 0
            ELSE CHOOSE i \in rejected :
                    i > nth[j - 1] /\ \A h \in rejected : h > nth[j - 1] => i <= h
    IN  [j \in 1..n |->
            [text |-> FailureTag(nth[j] - 1), processor |-> nth[j], dispatch |-> k]]

\* processBatch after `await Promise.allSettled(...)`
ProcessBatchResume ==
    \E k \in DOMAIN dispatches :
        /\ dispatches[k].state = "awaiting"
        /\ AllSettled(dispatches[k])
        /\ consoleErrors' = consoleErrors \o Reports(processors, dispatches[k].results, k)
        /\ dispatches' = [dispatches EXCEPT ![k].state = "done"]
        /\ UNCHANGED <<config, processors, queues, queueEntries, timers,
                       processInterval, flushes, calls, enqueued,
                       enqueuedEpoch, destroys, memberCalls>>

\* One step of `for (const chatId of queues.keys()) await processBatch(chatId)`
\* for flush call f whose iterator has passed `entry` entries of the Map.
\* The Map holds one key; an entry created after a clear() lies behind the
\* position of an iterator that was created before the clear().
\* A flush record keeps `awaiting` and `entry` only while the call is suspended.
FlushStep(f, entry) ==
    LET put(rec) == IF f > Len(flushes) THEN Append(flushes, rec)
                    ELSE [flushes EXCEPT ![f] = rec]
    IN  IF DefaultChatId \in DOMAIN queues /\ queueEntries > entry
        THEN /\ ProcessBatch(queues, DefaultChatId, "flush", f)
             /\ flushes' = put([state |-> "awaiting",
                     awaiting |-> IF Created = {} THEN 0 ELSE Len(dispatches'),
                     entry |-> queueEntries])
        ELSE /\ flushes' = put([state |-> "resolved", awaiting |-> 0, entry |-> 0])
             /\ UNCHANGED <<queues, dispatches, calls>>

\* flush() up to its first await
Flush ==
    /\ Len(flushes) < MaxFlushes
    /\ FlushStep(Len(flushes) + 1, 0)
    /\ UNCHANGED <<config, processors, queueEntries, timers, processInterval,
                   consoleErrors, enqueued, enqueuedEpoch, destroys,
                   memberCalls>>

\* flush() after an `await processBatch(chatId)`: the awaited promise was
\* rejected (flush() rejects with the same reason) or fulfilled (next key)
FlushResume ==
    \E f \in DOMAIN flushes :
        /\ FlushReady(flushes[f])
        /\ IF flushes[f].awaiting # 0
              /\ dispatches[flushes[f].awaiting].state = "rejected"
           THEN /\ flushes' = [flushes EXCEPT
                      ![f] = [state |-> "rejected", awaiting |-> 0, entry |-> 0]]
                /\ UNCHANGED <<queues, dispatches, calls>>
           ELSE FlushStep(f, flushes[f].entry)
        /\ UNCHANGED <<config, processors, queueEntries, timers,
                       processInterval, consoleErrors, enqueued,
                       enqueuedEpoch, destroys, memberCalls>>

\* destroy()
Destroy ==
    /\ destroys < MaxDestroys
    /\ processInterval' = ClearInterval(processInterval)
    /\ timers' = EmptyMap
    /\ queues' = ClearQueues(queues)
    /\ destroys' = destroys + 1
    /\ UNCHANGED <<config, processors, queueEntries, dispatches, flushes,
                   calls, consoleErrors, enqueued, enqueuedEpoch,
                   memberCalls>>

Next ==
    \/ Info
    \/ Warning
    \/ Error
    \/ QueueMessage
    \/ Tick
    \/ Settle
    \/ ProcessBatchResume
    \/ Flush
    \/ FlushResume
    \/ Destroy

Spec == Init /\ [][Next]_vars

\* the same operations on a batcher constructed with any config
SpecAnyConfig == InitAnyConfig /\ [][Next]_vars

\* The object createMessageBatcher returns:
\* { info, warning, error, queueMessage, flush, destroy }
Interface == {"info", "warning", "error", "queueMessage", "flush", "destroy"}

\* names under which a caller registers a further processor
ExtraNames == {"extraProcessor"}

\* batcher[member](arg) for a member the object does not have: the member is
\* undefined, the call raises a TypeError and nothing of the batcher changes
CallMember(member, arg) ==
    /\ member \notin Interface
    /\ Len(memberCalls) < MaxMemberCalls
    /\ memberCalls' = Append(memberCalls,
            [member |-> member, arg |-> arg, threw |-> TRUE])
    /\ UNCHANGED <<config, processors, queues, queueEntries, timers,
                   processInterval, dispatches, flushes, calls, consoleErrors,
                   enqueued, enqueuedEpoch, destroys>>

\* batcher.addExtraProcessor(processor)
AddExtraProcessor == \E name \in ExtraNames : CallMember("addExtraProcessor", name)

\* batcher.removeExtraProcessor(name)
RemoveExtraProcessor == \E name \in ExtraNames : CallMember("removeExtraProcessor", name)

\* batcher.flushSync()
FlushSync == CallMember("flushSync", "")

\* the operations of the batcher and the calls its tests make besides
NextInterface ==
    \/ Next
    \/ AddExtraProcessor
    \/ RemoveExtraProcessor
    \/ FlushSync

SpecInterface == Init /\ [][NextInterface]_vars

\* ------------------------------------------------------ derived notions
EnqueueCall == Info \/ Warning \/ Error \/ QueueMessage

\* the messages waiting in the default topic
Pending == IF DefaultChatId \in DOMAIN queues THEN queues[DefaultChatId] ELSE <<>>

\* position of a message in the order of the enqueue calls
Pos(m) == CHOOSE k \in DOMAIN enqueued : enqueued[k] = m

\* how often dispatch d called processor i, and with which argument
CallsTo(i, d) == {c \in DOMAIN calls : calls[c].processor = i /\ calls[c].dispatch = d}

InvokedOnceWith(i, d, batch) ==
    /\ Cardinality(CallsTo(i, d)) = 1
    /\ \A c \in CallsTo(i, d) : calls[c].messages = batch

\* the step drains exactly one batch, `batch`, and hands it once to every
\* registered processor
OneFlushOf(batch) ==
    /\ Len(dispatches') = Len(dispatches) + 1
    /\ dispatches'[Len(dispatches')].batch = batch
    /\ \A i \in DOMAIN processors :
          LET cs == {c \in DOMAIN calls' :
                        /\ calls'[c].processor = i
                        /\ calls'[c].dispatch = Len(dispatches) + 1}
          IN  /\ Cardinality(cs) = 1
              /\ \A c \in cs : calls'[c].messages = batch

\* ---------------------------------------------------------------- claims

\* C1: an enqueue call that brings the pending count to maxBatchSize
\* initiates exactly one flush inside the call: every registered processor
\* is invoked exactly once with those maxBatchSize messages and the queue
\* is empty when the call returns.
C1_SizeTriggerStep ==
    (EnqueueCall /\ Len(Pending) + 1 = config.maxBatchSize) =>
        /\ OneFlushOf(Append(Pending, enqueued'[Len(enqueued')]))
        /\ Len(Pending') = 0

\* C1 for every step: the size trigger flushes once, to all, inside the call
C1_SizeTrigger == [][C1_SizeTriggerStep]_vars

\* C2: a timer tick that finds k pending messages, 0 < k < maxBatchSize,
\* makes exactly one flush: every registered processor is invoked exactly
\* once with exactly those k messages and the queue is empty afterwards.
C2_TimeTriggerStep ==
    (Tick /\ 0 < Len(Pending) /\ Len(Pending) < config.maxBatchSize) =>
        /\ OneFlushOf(Pending)
        /\ Len(Pending') = 0

\* C2 for every step: a tick with pending messages flushes them once, to all
C2_TimeTrigger == [][C2_TimeTriggerStep]_vars

\* C3: when the promise of one processor rejects, every other processor has
\* still been invoked once with the complete batch, its own result is what
\* its own operation produces, and every later batch is dispatched to all
\* processors again.
C3_Isolation ==
    \A d \in DOMAIN dispatches : \A i \in DOMAIN processors :
        dispatches[d].results[i] = "rejected" =>
            /\ \A j \in DOMAIN processors \ {i} :
                  /\ InvokedOnceWith(j, d, dispatches[d].batch)
                  /\ dispatches[d].results[j] = "rejected"
                        => processors[j].processBatch = "rejects"
                  /\ dispatches[d].results[j] = "fulfilled"
                        => processors[j].processBatch = "resolves"
            /\ \A e \in DOMAIN dispatches : e > d =>
                  \A j \in DOMAIN processors :
                      InvokedOnceWith(j, e, dispatches[e].batch)

\* C4: every batch handed to a processor lists its messages in the order in
\* which they were enqueued.
C4_FifoWithinBatch ==
    \A c \in DOMAIN calls :
        \A a, b \in DOMAIN calls[c].messages :
            a < b => Pos(calls[c].messages[a]) < Pos(calls[c].messages[b])

C4_Witness ==
    \E c \in DOMAIN calls : Len(calls[c].messages) >= 2

\* C5: a processor failure never reaches the caller: flush() resolves even
\* when processors fail.  (queueMessage calls processBatch without awaiting
\* it, so an enqueue call has no failing outcome in this model.)
C5_FlushNeverRejects ==
    \A f \in DOMAIN flushes : flushes[f].state # "rejected"

\* C6: messages pending at destroy() are dropped: a batch holds only
\* messages enqueued after the last destroy() before it, so with nothing
\* enqueued after destroy() no processor is invoked after it.
C6_DestroyDiscards ==
    /\ \A d \in DOMAIN dispatches :
          \A a \in DOMAIN dispatches[d].batch :
              enqueuedEpoch[Pos(dispatches[d].batch[a])] = dispatches[d].epoch
    /\ \A c \in DOMAIN calls :
          dispatches[calls[c].dispatch].epoch > 0 =>
              \E k \in DOMAIN enqueued :
                  enqueuedEpoch[k] >= dispatches[calls[c].dispatch].epoch

\* a message was pending at destroy(), nothing was enqueued since, and the
\* message is gone without having been handed to a processor
C6_Witness ==
    /\ destroys > 0
    /\ \E k \in DOMAIN enqueued :
          /\ enqueuedEpoch[k] = 0
          /\ \A d \in DOMAIN dispatches :
                \A a \in DOMAIN dispatches[d].batch :
                    dispatches[d].batch[a] # enqueued[k]
    /\ \A k \in DOMAIN enqueued : enqueuedEpoch[k] < destroys
    /\ Len(Pending) = 0
    /\ \E f \in DOMAIN flushes : flushes[f].state = "resolved"

\* C7: after destroy() no enqueue or flush call invokes a processor and the
\* instance does not take up batching again.
C7_DestroyedIsInert ==
    /\ \A c \in DOMAIN calls : dispatches[calls[c].dispatch].epoch = 0
    /\ destroys > 0 => Len(Pending) = 0

\* C8: no processor is called with an empty batch; a flush() or a timer tick
\* that finds nothing pending calls no processor, and such a flush() does not
\* fail.
C8_NoEmptyBatch ==
    /\ \A c \in DOMAIN calls : Len(calls[c].messages) > 0
    /\ \A d \in DOMAIN dispatches : Len(dispatches[d].batch) > 0

C8_EmptyFlushStep ==
    /\ ((Flush \/ Tick \/ FlushResume) /\ Len(Pending) = 0) =>
          /\ calls' = calls
          /\ dispatches' = dispatches
    /\ (Flush /\ Len(Pending) = 0) =>
          /\ flushes'[Len(flushes')].state \in {"awaiting", "resolved"}
          /\ flushes'[Len(flushes')].awaiting = 0
    /\ \A f \in DOMAIN flushes :
          (flushes[f].state = "awaiting" /\ flushes[f].awaiting = 0
             /\ Len(Pending) = 0)
          => flushes'[f].state \in {"awaiting", "resolved"}

\* C8: never an empty batch, and a flush or tick on an empty queue is a no-op
C8_EmptyFlushNoOp == []C8_NoEmptyBatch /\ [][C8_EmptyFlushStep]_vars

\* a second flush() right after a first one: the first drained a batch, the
\* second found the queue empty and has completed
C8_Witness ==
    /\ Len(flushes) = 2
    /\ flushes[2].state = "resolved"
    /\ DefaultChatId \in DOMAIN queues
    /\ Len(dispatches) = 1
    /\ dispatches[1].flush = 1

\* C9: a processor whose call throws (or whose operation is missing) is a
\* failure of that processor only: flush() still invokes every other
\* processor with the batch, reports the defective one and completes.
C9_ThrowIsIsolated ==
    \A d \in DOMAIN dispatches : \A t \in DOMAIN processors :
        (dispatches[d].by = "flush" /\ processors[t].processBatch = "throws") =>
            /\ \A j \in DOMAIN processors \ {t} :
                  InvokedOnceWith(j, d, dispatches[d].batch)
            /\ dispatches[d].state # "rejected"
            /\ flushes[dispatches[d].flush].state # "rejected"
            /\ dispatches[d].state = "done" =>
                  \E e \in DOMAIN consoleErrors :
                      consoleErrors[e].dispatch = d /\ consoleErrors[e].processor = t

\* 'Processor <name> failed:'
NameTag(name) == "Processor " \o name \o " failed:"

\* C10: every rejected processor of a completed dispatch is reported exactly
\* once, under the name of that processor.
C10_FailureTaggedWithName ==
    \A d \in DOMAIN dispatches : \A i \in DOMAIN processors :
        (dispatches[d].state = "done" /\ dispatches[d].results[i] = "rejected") =>
            LET reports == {e \in DOMAIN consoleErrors :
                               /\ consoleErrors[e].dispatch = d
                               /\ consoleErrors[e].processor = i}
            IN  /\ Cardinality(reports) = 1
                /\ \A e \in reports :
                      consoleErrors[e].text = NameTag(processors[i].name)

\* names registered through addExtraProcessor and not removed since
Registered ==
    {memberCalls[k].arg : k \in
        {k \in DOMAIN memberCalls :
            /\ memberCalls[k].member = "addExtraProcessor"
            /\ \A j \in DOMAIN memberCalls :
                  j > k => ~(/\ memberCalls[j].member = "removeExtraProcessor"
                             /\ memberCalls[j].arg = memberCalls[k].arg)}}

\* names of the processors the dispatch d, created by the step, invoked
ReceiversOf(d) ==
    {processors[calls'[c].processor].name :
        c \in {c \in DOMAIN calls' : calls'[c].dispatch = d}}

\* C11: the processors that receive a batch are the base processors and
\* those added through addExtraProcessor and not removed since: a processor
\* registered by addExtraProcessor(P) receives every batch drained later.
C11_RegistrationStep ==
    \A d \in Created :
        /\ Registered \subseteq ReceiversOf(d)
        /\ ReceiversOf(d) \subseteq
              {processors[i].name : i \in DOMAIN processors} \cup Registered

\* C11 for every step that drains a batch
C11_DynamicRegistration == [][C11_RegistrationStep]_vars

\* C12: flushSync() drains the queue and has invoked every processor once
\* with the drained batch when it returns, and it does not throw.
C12_FlushSyncStep ==
    FlushSync =>
        /\ ~memberCalls'[Len(memberCalls')].threw
        /\ Len(Pending') = 0
        /\ Len(Pending) > 0 =>
              \A i \in DOMAIN processors :
                  \E c \in DOMAIN calls' \ DOMAIN calls :
                      /\ calls'[c].processor = i
                      /\ calls'[c].messages = Pending

\* C12 for every call of flushSync()
C12_FlushSyncDrains == [][C12_FlushSyncStep]_vars

\* C13: a config with maxBatchSize <= 0 or maxWaitMs <= 0 yields no batcher:
\* no timer runs and no message is ever queued.
C13_InvalidConfigRejected ==
    (config.maxBatchSize <= 0 \/ config.maxWaitMs <= 0) =>
        /\ ~processInterval
        /\ queues = EmptyMap
        /\ enqueued = <<>>

\* error objects a caller passes along with the text
ErrorObjects == {"testError"}

\* error(message, err): the function declares the parameter `message` only,
\* a further argument is not read
ErrorCall(err) == Error

\* the message pushed by the enqueue call being taken
Pushed == enqueued'[Len(enqueued')]

\* C14: info(text), warning(text) and error(text, err) each append exactly
\* one message to the default topic, with the text supplied, the level of
\* the wrapper and, for error(text, err), err in the field `error`.
C14_WrapperStep ==
    /\ (Info \/ Warning \/ Error) =>
          /\ Len(enqueued') = Len(enqueued) + 1
          /\ Pushed.chatId = DefaultChatId
          /\ Pushed.text = Len(enqueued) + 1
          /\ \/ Pending' = Append(Pending, Pushed)
             \/ /\ Pending' = <<>>
                /\ dispatches'[Len(dispatches')].batch = Append(Pending, Pushed)
    /\ Info /\ ~Warning /\ ~Error => Pushed.level = "info"
    /\ Warning /\ ~Info /\ ~Error => Pushed.level = "warning"
    /\ \A err \in ErrorObjects :
          ErrorCall(err) /\ ~Info /\ ~Warning =>
              /\ Pushed.level = "error"
              /\ "error" \in DOMAIN Pushed
              /\ Pushed.error = err

\* C14 for every call of a wrapper
C14_WrappersDeliver == [][C14_WrapperStep]_vars

\* the drained batches that hold message m
DrainsOf(m) ==
    {d \in DOMAIN dispatches :
        \E a \in DOMAIN dispatches[d].batch : dispatches[d].batch[a] = m}

\* the calls of processor i whose batch holds message m
DeliveriesOf(m, i) ==
    {c \in DOMAIN calls :
        /\ calls[c].processor = i
        /\ \E a \in DOMAIN calls[c].messages : calls[c].messages[a] = m}

\* C15: an enqueued message is in at most one drained batch, is passed to
\* each processor at most once, and does not return to the queue once it
\* was drained, whatever the processors made of its batch.
C15_AtMostOnce ==
    \A k \in DOMAIN enqueued :
        /\ Cardinality(DrainsOf(enqueued[k])) <= 1
        /\ \A i \in DOMAIN processors :
              Cardinality(DeliveriesOf(enqueued[k], i)) <= 1
        /\ DrainsOf(enqueued[k]) # {} =>
              \A a \in DOMAIN Pending : Pending[a] # enqueued[k]

\* a processor has failed on a batch, the failure was reported, and a later
\* batch has been drained and dispatched since
C15_Witness ==
    \E d \in DOMAIN dispatches :
        /\ dispatches[d].state = "done"
        /\ \E i \in DOMAIN processors : dispatches[d].results[i] = "rejected"
        /\ \E e \in DOMAIN dispatches : e > d /\ dispatches[e].state = "done"

\* some processor still works on the batch of dispatch d
InFlight(d) == \E i \in DOMAIN dispatches[d].results : dispatches[d].results[i] = "pending"

\* message k was enqueued after the batch of dispatch d was drained
EnqueuedAfter(k, d) ==
    \A a \in DOMAIN dispatches[d].batch : Pos(dispatches[d].batch[a]) < k

\* message k is in the batch of dispatch d
InBatch(k, d) ==
    \E a \in DOMAIN dispatches[d].batch : dispatches[d].batch[a] = enqueued[k]

\* message k waits in the queue
IsPending(k) == \E a \in DOMAIN Pending : Pending[a] = enqueued[k]

\* message k is held by no processor call of dispatch d, and it is in the
\* fresh queue or in one batch drained after d
KeptForNextBatch(k, d) ==
    /\ \A c \in DOMAIN calls :
          calls[c].dispatch = d =>
              \A a \in DOMAIN calls[c].messages : calls[c].messages[a] # enqueued[k]
    /\ \A a \in DOMAIN Pending : EnqueuedAfter(Pos(Pending[a]), d)
    /\ \/ IsPending(k) /\ \A e \in DOMAIN dispatches : ~InBatch(k, e)
       \/ /\ ~IsPending(k)
          /\ \E e \in DOMAIN dispatches : e > d /\ InBatch(k, e)

\* C16 as stated: a message enqueued while a dispatch is in flight is not
\* added to the batch in flight; it is in the fresh queue until the next
\* drain and then in the next drained batch, never lost.
C16_SnapshotOnDrain ==
    \A d \in DOMAIN dispatches : \A k \in DOMAIN enqueued :
        (InFlight(d) /\ EnqueuedAfter(k, d)) => KeptForNextBatch(k, d)

\* C16 amended: the same, unless destroy() was called after the message was
\* enqueued, which discards it with the queue.
C16_SnapshotUnlessDestroyed ==
    \A d \in DOMAIN dispatches : \A k \in DOMAIN enqueued :
        (InFlight(d) /\ EnqueuedAfter(k, d) /\ enqueuedEpoch[k] = destroys)
            => KeptForNextBatch(k, d)

\* a dispatch is in flight, a message was enqueued after its drain, and that
\* message has been drained into a later batch
C16_Witness ==
    \E d \in DOMAIN dispatches : \E k \in DOMAIN enqueued :
        /\ InFlight(d)
        /\ EnqueuedAfter(k, d)
        /\ enqueuedEpoch[k] = destroys
        /\ \E e \in DOMAIN dispatches : e > d /\ InBatch(k, e) /\ dispatches[e].by = "timer"

\* flush call f resolves in the step being taken
Resolves(f) ==
    /\ flushes'[f].state = "resolved"
    /\ f \in DOMAIN flushes => flushes[f].state # "resolved"

\* C17: at the moment a flush() resolves no processor call is in flight for
\* any batch drained before or during that flush, whether the flush, a size
\* trigger or a timer tick drained it.
C17_FlushStep ==
    \A f \in DOMAIN flushes' :
        Resolves(f) =>
            \A d \in DOMAIN dispatches' : \A i \in DOMAIN processors :
                dispatches'[d].results[i] # "pending"

\* C17 for every step in which a flush() resolves
C17_FlushAwaitsAll == [][C17_FlushStep]_vars

\* the promise of processBatch activation d is settled
Settled(d) == dispatches[d].state \in {"done", "rejected"}

\* C18: a timer tick does not drain a batch while the flush an earlier tick
\* started has not settled; enqueue calls are accepted meanwhile.
C18_TickStep ==
    (Tick /\ Created # {}) =>
        \A d \in DOMAIN dispatches : dispatches[d].by = "timer" => Settled(d)

\* C18 for every timer tick
C18_TicksDoNotOverlap == [][C18_TickStep]_vars

\* The event loop: the interval keeps firing until clearInterval, and a
\* continuation whose awaited promise has settled is run.  Nothing obliges
\* the caller to call again or a processor to settle its promise.
Fairness ==
    /\ WF_vars(Tick)
    /\ WF_vars(ProcessBatchResume)
    /\ WF_vars(FlushResume)

SpecLive == Spec /\ Fairness

\* message k has been handed to every registered processor
Delivered(k) ==
    /\ k \in DOMAIN enqueued
    /\ \A i \in DOMAIN processors : DeliveriesOf(enqueued[k], i) # {}

\* C19: unless the batcher is destroyed, every enqueued message is
\* eventually handed to every registered processor, with no flush() needed.
C19_EventualDispatch ==
    \A k \in 1..MaxMessages :
        (k \in DOMAIN enqueued) ~> (destroys > 0 \/ Delivered(k))

\* C20: between operations fewer than maxBatchSize messages are pending,
\* and every batch handed to a processor holds at least one and at most
\* maxBatchSize messages.
C20_BatchSizeBound ==
    /\ Len(Pending) < config.maxBatchSize
    /\ \A c \in DOMAIN calls :
          /\ Len(calls[c].messages) >= 1
          /\ Len(calls[c].messages) <= config.maxBatchSize
    /\ \A d \in DOMAIN dispatches :
          /\ Len(dispatches[d].batch) >= 1
          /\ Len(dispatches[d].batch) <= config.maxBatchSize

\* the largest batch size is configured and the size trigger has handed a
\* full batch to every processor, leaving nothing pending
C20_Witness ==
    /\ config.maxBatchSize = MaxBatchSize
    /\ Len(Pending) = 0
    /\ \E d \in DOMAIN dispatches :
          /\ dispatches[d].by = "size"
          /\ Len(dispatches[d].batch) = config.maxBatchSize
          /\ \A i \in DOMAIN processors :
                InvokedOnceWith(i, d, dispatches[d].batch)

\* the batches processor i was invoked with, one after the other in the
\* order of the invocations
Concatenated(i) ==
    LET upTo[n \in 0..Len(calls)] ==
            IF n = 0 THEN <<>>
            ELSE IF calls[n].processor = i
                 THEN upTo[n - 1] \o calls[n].messages
                 ELSE upTo[n - 1]
    IN  upTo[Len(calls)]

\* C21: for every processor, the batches it was invoked with, concatenated
\* in the order of the invocations, list messages in their enqueue order,
\* also when a batch is drained while an earlier dispatch is in flight.
C21_OrderAcrossBatches ==
    \A i \in DOMAIN processors :
        \A a, b \in DOMAIN Concatenated(i) :
            a < b => Pos(Concatenated(i)[a]) < Pos(Concatenated(i)[b])

\* a processor was invoked with a second batch, drained by a timer tick,
\* while its promise for the first batch had not settled
C21_Witness ==
    \E d, e \in DOMAIN dispatches : \E i \in DOMAIN processors :
        /\ d < e
        /\ dispatches[d].results[i] = "pending"
        /\ dispatches[e].by = "timer"
        /\ CallsTo(i, d) # {}
        /\ CallsTo(i, e) # {}
        /\ Len(Concatenated(i)) >= 2
====
